---- MODULE Spec2Model ----
(***************************************************************************)
(* Model of pdbex: the driver PDBExtractor (Source/PDBExtractor.cpp) and   *)
(* the field declaration printer UserDataFieldDefinition.                  *)
(*                                                                         *)
(* Text is modelled as a sequence of one-character strings, so that        *)
(* strlen, indexing and concatenation are what the code does.  A nullable  *)
(* pointer is a sequence of length 0 (nullptr) or 1 (the pointee).         *)
(***************************************************************************)
EXTENDS Integers, Sequences, FiniteSets, TLC

VARIABLES
    argv,             \* the argument vector, argv[0] first           (input)
    pdb,              \* the symbol database on disk                  (input)
    pc,               \* position of PDBExtractor::Run
    ArgumentPointer,  \* local of ParseParameters
    m_Settings,       \* PDBExtractor::m_Settings, flattened
    m_Made,           \* m_HeaderReconstructor/m_SymbolVisitor/m_SymbolSorter constructed
    m_PDBOpen,        \* m_PDB has been opened
    m_SymbolSorter,   \* state of the PDBSymbolSorter
    m_Architecture,   \* PDBExtractor::m_Architecture
    streams,          \* every std::ofstream created with new, in creation order
    out,              \* writes received by the output sinks, in order
    cerr,             \* lines written to std::cerr
    exc,              \* the PDBDumperException thrown, if any
    Result,           \* local of Run
    steps,            \* log: the pipeline steps entered, in order
    handled,          \* log: argv indices examined as CurrentArgument
    fd                \* the field declaration printer and the chain it visits

vars == <<argv, pdb, pc, ArgumentPointer, m_Settings, m_Made, m_PDBOpen,
          m_SymbolSorter, m_Architecture, streams, out, cerr, exc, Result,
          steps, handled, fd>>

driverVars == <<argv, pdb, pc, ArgumentPointer, m_Settings, m_Made, m_PDBOpen,
                m_SymbolSorter, m_Architecture, streams, out, cerr, exc,
                Result, steps, handled>>

----------------------------------------------------------------------------
(* Bounds *)

MaxOptArgs == 3     \* option tokens of a pipeline command line
MaxFlagArgs == 2    \* option tokens of a command line drawn from every token
MaxFileArgs == 4    \* option tokens of a command line of -o/-t options

----------------------------------------------------------------------------
(* Pointers and text *)

NULL == <<>>
Ptr(x) == <<x>>
Deref(p) == p[1]

Opt(c) == <<"-", c>>
Off(c) == <<"-", c, "-">>

SeqsUpTo(S, n) == UNION {[1..k -> S] : k \in 0..n}

ERROR_SUCCESS == 0
EXIT_FAILURE == 1

MESSAGE_INVALID_PARAMETERS == "Invalid parameters"
MESSAGE_FILE_NOT_FOUND == "File not found"
MESSAGE_SYMBOL_NOT_FOUND == "Symbol not found"

----------------------------------------------------------------------------
(* The symbol graph *)

BaseSym(n) == [Tag |-> "BaseType", Name |-> n, Size |-> 4, Deps |-> <<>>]
PtrSym(sz) == [Tag |-> "Pointer", Name |-> <<>>, Size |-> sz, Deps |-> <<>>]
UdtSym(n, d) == [Tag |-> "UDT", Name |-> n, Size |-> 8, Deps |-> d]
EnumSym(n) == [Tag |-> "Enum", Name |-> n, Size |-> 4, Deps |-> <<>>]

\* struct T { int }; struct <unnamed> { int }; struct S { T; <unnamed>; <enum> }; struct U { int }
\* no pointer anywhere: no architecture marker
GraphNoMarker ==
    << BaseSym(<<"i">>), UdtSym(<<"T">>, <<1>>), UdtSym(<<>>, <<1>>),
       EnumSym(<<>>), UdtSym(<<"S">>, <<2, 3, 4>>), UdtSym(<<"U">>, <<1>>) >>

\* the same types, S also holds a 64-bit pointer, U is first in the map
GraphX64 ==
    << UdtSym(<<"U">>, <<2>>), BaseSym(<<"i">>), UdtSym(<<"T">>, <<2>>),
       UdtSym(<<>>, <<2>>), EnumSym(<<"E">>), PtrSym(8),
       UdtSym(<<"S">>, <<3, 4, 5, 6>>) >>

\* a 32-bit pointer is the first symbol of the map
GraphX86 ==
    << PtrSym(4), BaseSym(<<"i">>), UdtSym(<<"T">>, <<2, 1>>),
       UdtSym(<<"S">>, <<3>>) >>

Graphs == {GraphNoMarker, GraphX64, GraphX86}

IsUnnamedSymbol(sym) == sym.Name = <<>>

GetSymbolByName(name) ==
    IF \E i \in 1..Len(pdb.syms) : pdb.syms[i].Name = name
    THEN Ptr(CHOOSE i \in 1..Len(pdb.syms) : pdb.syms[i].Name = name)
    ELSE NULL

----------------------------------------------------------------------------
(* PDBSymbolSorter *)

NewSorter == [sorted |-> <<>>, visited |-> {}, arch |-> "None"]

SorterClear(s) == NewSorter

PointerArchitecture(size) ==
    IF size = 4 THEN "x86" ELSE IF size = 8 THEN "x64" ELSE "None"

RECURSIVE SorterVisit(_, _, _)
RECURSIVE SorterVisitMembers(_, _, _, _)

SorterVisitMembers(g, s, deps, i) ==
    IF i > Len(deps) THEN s
    ELSE SorterVisitMembers(g, SorterVisit(g, s, deps[i]), deps, i + 1)

SorterVisit(g, s, id) ==
    LET sym == g[id] IN
    CASE sym.Tag = "UDT" ->
            IF id \in s.visited THEN s
            ELSE LET s1 == [s EXCEPT !.visited = @ \cup {id}]
                     s2 == SorterVisitMembers(g, s1, sym.Deps, 1)
                 IN [s2 EXCEPT !.sorted = Append(@, id)]
      [] sym.Tag = "Enum" ->
            IF id \in s.visited THEN s
            ELSE [s EXCEPT !.visited = @ \cup {id}, !.sorted = Append(@, id)]
      [] sym.Tag = "Pointer" ->
            IF s.arch = "None"
            THEN [s EXCEPT !.arch = PointerArchitecture(sym.Size)]
            ELSE s
      [] OTHER -> s

----------------------------------------------------------------------------
(* Settings *)

DefaultSettings ==
    [ SymbolName |-> <<>>, PdbPath |-> <<>>,
      OutputFilename |-> NULL, TestFilename |-> NULL,
      PrintReferencedTypes |-> TRUE, PrintHeader |-> TRUE,
      PrintDeclarations |-> TRUE, PrintDefinitions |-> TRUE,
      OutputFile |-> 0,          \* 0 is std::cout, n > 0 is streams[n]
      TestFile |-> NULL,
      MemberStructExpansion |-> "InlineUnnamed",
      CreatePaddingMembers |-> TRUE, ShowOffsets |-> TRUE,
      MicrosoftTypedefs |-> TRUE, AllowBitFieldsInUnion |-> FALSE,
      AllowAnonymousDataTypes |-> TRUE,
      AnonymousUnionPrefix |-> <<>>, AnonymousStructPrefix |-> <<>>,
      SymbolPrefix |-> <<>>, SymbolSuffix |-> <<>>,
      UseStdInt |-> FALSE ]

\* the defaults PrintUsage documents, (T) or (F), per flag letter
DocumentedDefault(c) ==
    CASE c = "p" -> TRUE  [] c = "x" -> TRUE  [] c = "m" -> TRUE
      [] c = "b" -> FALSE [] c = "d" -> TRUE  [] c = "i" -> FALSE
      [] c = "j" -> TRUE  [] c = "k" -> TRUE  [] c = "n" -> TRUE
      [] c = "l" -> TRUE

\* the setting each flag letter writes
FlagField(S, c) ==
    CASE c = "p" -> S.CreatePaddingMembers
      [] c = "x" -> S.ShowOffsets
      [] c = "m" -> S.MicrosoftTypedefs
      [] c = "b" -> S.AllowBitFieldsInUnion
      [] c = "d" -> S.AllowAnonymousDataTypes
      [] c = "i" -> S.UseStdInt
      [] c = "j" -> S.PrintReferencedTypes
      [] c = "k" -> S.PrintHeader
      [] c = "n" -> S.PrintDeclarations
      [] c = "l" -> S.PrintDefinitions

ValueOptions == {"o", "t", "e", "u", "s", "r", "g"}
BoolFlags == {"p", "x", "m", "b", "d", "i", "j", "k", "n", "l"}

----------------------------------------------------------------------------
(* PDBExtractor::ParseParameters *)

argc == Len(argv)

\* argv[k] of the C program; argv[argc] is the terminating null pointer
ArgPtr(k) == IF k < argc THEN Ptr(argv[k + 1]) ELSE NULL
Arg(k) == argv[k + 1]

HelpArguments == { <<"-", "h">>, <<"-", "-", "h", "e", "l", "p">> }

Throw(Message) ==
    /\ exc' = Ptr(Message)
    /\ pc' = "catch"

\* the condition of the 'Handling of -X- switches' check
MalformedSwitch(CurrentArgument) ==
    LET CurrentArgumentLength == Len(CurrentArgument) IN
    \/ (CurrentArgumentLength # 2 /\ CurrentArgumentLength # 3)
    \/ (CurrentArgumentLength = 2 /\ CurrentArgument[1] # "-")
    \/ (CurrentArgumentLength = 3 /\ CurrentArgument[1] # "-" /\ CurrentArgument[3] # "-")

\* FlagValue with the off switch ignored
FlagValueIgnoresOff(OffSwitch) == TRUE

\* what every boolean case of the switch assigns
FlagValue(OffSwitch) == ~OffSwitch

ExpansionOf(NextArgument) ==
    LET first == IF Len(NextArgument) = 0 THEN "" ELSE NextArgument[1] IN
    CASE first = "n" -> "None"
      [] first = "i" -> "InlineUnnamed"
      [] first = "a" -> "InlineAll"
      [] OTHER -> "InlineUnnamed"

\* the switch on CurrentArgument[1], for the options that open no stream
ParseOption(S, c, OffSwitch, NextArgument) ==
    CASE c = "e" -> [S EXCEPT !.MemberStructExpansion = ExpansionOf(Deref(NextArgument))]
      [] c = "u" -> [S EXCEPT !.AnonymousUnionPrefix = Deref(NextArgument)]
      [] c = "s" -> [S EXCEPT !.AnonymousStructPrefix = Deref(NextArgument)]
      [] c = "r" -> [S EXCEPT !.SymbolPrefix = Deref(NextArgument)]
      [] c = "g" -> [S EXCEPT !.SymbolSuffix = Deref(NextArgument)]
      [] c = "p" -> [S EXCEPT !.CreatePaddingMembers = FlagValue(OffSwitch)]
      [] c = "x" -> [S EXCEPT !.ShowOffsets = FlagValue(OffSwitch)]
      [] c = "m" -> [S EXCEPT !.MicrosoftTypedefs = FlagValue(OffSwitch)]
      [] c = "b" -> [S EXCEPT !.AllowBitFieldsInUnion = FlagValue(OffSwitch)]
      [] c = "d" -> [S EXCEPT !.AllowAnonymousDataTypes = FlagValue(OffSwitch)]
      [] c = "i" -> [S EXCEPT !.UseStdInt = FlagValue(OffSwitch)]
      [] c = "j" -> [S EXCEPT !.PrintReferencedTypes = FlagValue(OffSwitch)]
      [] c = "k" -> [S EXCEPT !.PrintHeader = FlagValue(OffSwitch)]
      [] c = "n" -> [S EXCEPT !.PrintDeclarations = FlagValue(OffSwitch)]
      [] c = "l" -> [S EXCEPT !.PrintDefinitions = FlagValue(OffSwitch)]

\* new std::ofstream(name, std::ios::out)
NewStream(name) == Append(streams, [name |-> name, open |-> TRUE])

\* case 'o': the new stream replaces whatever OutputFile held
OpenOutputFile(S, NextArgument) ==
    [S EXCEPT !.OutputFilename = NextArgument,
              !.OutputFile = Len(streams) + 1]

\* case 't'
OpenTestFile(S, NextArgument) ==
    [S EXCEPT !.TestFilename = NextArgument,
              !.TestFile = Ptr(Len(streams) + 1)]

\* entry of ParseParameters: the help check and the two positional arguments
ParseParameters ==
    /\ pc = "ParseParameters"
    /\ steps' = Append(steps, "ParseParameters")
    /\ IF argc = 1 \/ (argc = 2 /\ Arg(1) \in HelpArguments)
       THEN \* PrintUsage(); exit(EXIT_SUCCESS);
            /\ pc' = "exited"
            /\ UNCHANGED <<m_Settings, ArgumentPointer>>
       ELSE IF argc = 2
       THEN \* PdbPath = argv[2], a null pointer assigned to a std::string:
            \* undefined; the builds either throw std::logic_error, which Run
            \* does not catch, or fault in strlen
            /\ pc' \in {"terminated", "crashed"}
            /\ m_Settings' = [m_Settings EXCEPT !.SymbolName = Arg(1)]
            /\ ArgumentPointer' = 2
       ELSE /\ pc' = "ParseLoop"
            /\ m_Settings' = [m_Settings EXCEPT !.SymbolName = Arg(1),
                                                !.PdbPath = Arg(2)]
            /\ ArgumentPointer' = 2
    /\ UNCHANGED <<argv, pdb, m_Made, m_PDBOpen, m_SymbolSorter,
                   m_Architecture, streams, out, cerr, exc, Result, handled, fd>>

\* one iteration of while (++ArgumentPointer < argc)
ParseArgument ==
    /\ pc = "ParseLoop"
    /\ ArgumentPointer + 1 < argc
    /\ LET ap == ArgumentPointer + 1
           CurrentArgument == Arg(ap)
           NextArgument == IF ap < argc THEN ArgPtr(ap + 1) ELSE NULL
           OffSwitch == Len(CurrentArgument) = 3 /\ CurrentArgument[3] = "-"
           c == CurrentArgument[2]
       IN /\ handled' = handled \cup {ap}
          /\ IF MalformedSwitch(CurrentArgument)
             THEN /\ Throw(MESSAGE_INVALID_PARAMETERS)
                  /\ ArgumentPointer' = ap
                  /\ UNCHANGED <<m_Settings, streams>>
             ELSE IF c \in ValueOptions
             THEN IF NextArgument = NULL
                  THEN /\ Throw(MESSAGE_INVALID_PARAMETERS)
                       /\ ArgumentPointer' = ap
                       /\ UNCHANGED <<m_Settings, streams>>
                  ELSE /\ ArgumentPointer' = ap + 1
                       /\ UNCHANGED <<pc, exc>>
                       /\ IF c = "o"
                          THEN /\ streams' = NewStream(Deref(NextArgument))
                               /\ m_Settings' = OpenOutputFile(m_Settings, NextArgument)
                          ELSE IF c = "t"
                          THEN /\ streams' = NewStream(Deref(NextArgument))
                               /\ m_Settings' = OpenTestFile(m_Settings, NextArgument)
                          ELSE /\ m_Settings' = ParseOption(m_Settings, c, OffSwitch, NextArgument)
                               /\ UNCHANGED streams
             ELSE IF c \in BoolFlags
             THEN /\ ArgumentPointer' = ap
                  /\ m_Settings' = ParseOption(m_Settings, c, OffSwitch, NextArgument)
                  /\ UNCHANGED <<pc, exc, streams>>
             ELSE /\ Throw(MESSAGE_INVALID_PARAMETERS)
                  /\ ArgumentPointer' = ap
                  /\ UNCHANGED <<m_Settings, streams>>
    /\ UNCHANGED <<argv, pdb, m_Made, m_PDBOpen, m_SymbolSorter,
                   m_Architecture, out, cerr, Result, steps, fd>>

\* the loop ends: the reconstructor, the visitor and the sorter are made
ParseParametersEnd ==
    /\ pc = "ParseLoop"
    /\ ~(ArgumentPointer + 1 < argc)
    /\ ArgumentPointer' = ArgumentPointer + 1
    /\ m_Made' = TRUE
    /\ m_SymbolSorter' = NewSorter
    /\ pc' = "OpenPDBFile"
    /\ UNCHANGED <<argv, pdb, m_Settings, m_PDBOpen, m_Architecture, streams,
                   out, cerr, exc, Result, steps, handled, fd>>

----------------------------------------------------------------------------
(* The dump pipeline.  The steps of one Dump* call run to completion inside *)
(* one action; D carries what they change: out, sorter, arch, steps.        *)

Write(sink, kind, sym, info) ==
    [sink |-> sink, kind |-> kind, sym |-> sym, info |-> info]

\* m_SymbolVisitor->Run(e): the definition of symbol e goes to the output file
VisitorRun(D, e, via) ==
    [D EXCEPT !.out = Append(@, Write(m_Settings.OutputFile, "def", e, via))]

RECURSIVE GetArchitectureFrom(_, _)
\* the loop of GetArchitecture from map position i on
GetArchitectureFrom(D, i) ==
    IF i > Len(pdb.syms) THEN D
    ELSE LET s == SorterVisit(pdb.syms, D.sorter, i) IN
         IF s.arch # "None"
         THEN [D EXCEPT !.arch = s.arch, !.sorter = SorterClear(s)]
         ELSE GetArchitectureFrom([D EXCEPT !.sorter = s], i + 1)

GetArchitecture(D) == GetArchitectureFrom(D, 1)

PrintPDBHeader(D) ==
    LET D0 == [D EXCEPT !.steps = Append(@, "PrintPDBHeader")] IN
    IF m_Settings.PrintHeader
    THEN LET D1 == GetArchitecture(D0) IN
         [D1 EXCEPT !.out = Append(@, Write(m_Settings.OutputFile, "header", 0, D1.arch))]
    ELSE D0

RECURSIVE DeclarationsFrom(_, _, _)
DeclarationsFrom(o, sorted, i) ==
    IF i > Len(sorted) THEN o
    ELSE LET e == pdb.syms[sorted[i]] IN
         IF e.Tag = "UDT" /\ ~IsUnnamedSymbol(e)
         THEN DeclarationsFrom(Append(o, Write(m_Settings.OutputFile, "decl", sorted[i], "")),
                               sorted, i + 1)
         ELSE DeclarationsFrom(o, sorted, i + 1)

PrintPDBDeclarations(D) ==
    LET D0 == [D EXCEPT !.steps = Append(@, "PrintPDBDeclarations")] IN
    IF m_Settings.PrintDeclarations
    THEN [D0 EXCEPT !.out = Append(DeclarationsFrom(@, D.sorter.sorted, 1),
                                   Write(m_Settings.OutputFile, "endl", 0, ""))]
    ELSE D0

\* the Expand flag of PrintPDBDefinitions
Expand(e) ==
    ~ ( /\ m_Settings.MemberStructExpansion = "InlineUnnamed"
        /\ (e.Tag = "Enum" \/ e.Tag = "UDT")
        /\ IsUnnamedSymbol(e) )

RECURSIVE DefinitionsFrom(_, _, _)
DefinitionsFrom(D, sorted, i) ==
    IF i > Len(sorted) THEN D
    ELSE IF Expand(pdb.syms[sorted[i]])
         THEN DefinitionsFrom(VisitorRun(D, sorted[i], "sorted"), sorted, i + 1)
         ELSE DefinitionsFrom(D, sorted, i + 1)

PrintPDBDefinitions(D) ==
    LET D0 == [D EXCEPT !.steps = Append(@, "PrintPDBDefinitions")] IN
    IF m_Settings.PrintDefinitions
    THEN DefinitionsFrom(D0, D0.sorter.sorted, 1)
    ELSE D0

RECURSIVE VisitAllFrom(_, _)
VisitAllFrom(s, i) ==
    IF i > Len(pdb.syms) THEN s
    ELSE VisitAllFrom(SorterVisit(pdb.syms, s, i), i + 1)

DumpState == [out |-> out, sorter |-> m_SymbolSorter, arch |-> m_Architecture,
              steps |-> steps]

SetDumpState(D) ==
    /\ out' = D.out
    /\ m_SymbolSorter' = D.sorter
    /\ m_Architecture' = D.arch
    /\ steps' = D.steps

\* the body of DumpAllSymbols
DumpAllSymbolsBody(D) ==
    LET D1 == PrintPDBHeader(D)
        D2 == [D1 EXCEPT !.sorter = VisitAllFrom(@, 1)]
        D3 == PrintPDBDeclarations(D2)
    IN PrintPDBDefinitions(D3)

\* the body of DumpOneSymbol once the symbol is found
DumpOneSymbolBody(D, Symbol) ==
    LET D1 == PrintPDBHeader(D) IN
    IF m_Settings.PrintReferencedTypes /\ m_Settings.MemberStructExpansion # "InlineAll"
    THEN PrintPDBDefinitions([D1 EXCEPT !.sorter = SorterVisit(pdb.syms, @, Symbol)])
    ELSE VisitorRun(D1, Symbol, "requested")

OpenPDBFile ==
    /\ pc = "OpenPDBFile"
    /\ steps' = Append(steps, "OpenPDBFile")
    /\ IF pdb.exists
       THEN /\ m_PDBOpen' = TRUE
            /\ pc' = "PrintTestHeader"
            /\ UNCHANGED exc
       ELSE /\ Throw(MESSAGE_FILE_NOT_FOUND)
            /\ UNCHANGED m_PDBOpen
    /\ UNCHANGED <<argv, pdb, ArgumentPointer, m_Settings, m_Made,
                   m_SymbolSorter, m_Architecture, streams, out, cerr, Result,
                   handled, fd>>

PrintTestHeader ==
    /\ pc = "PrintTestHeader"
    /\ steps' = Append(steps, "PrintTestHeader")
    /\ out' = IF m_Settings.TestFile # NULL
              THEN Append(out, Write(Deref(m_Settings.TestFile), "testheader", 0, ""))
              ELSE out
    /\ pc' = "Dump"
    /\ UNCHANGED <<argv, pdb, ArgumentPointer, m_Settings, m_Made, m_PDBOpen,
                   m_SymbolSorter, m_Architecture, streams, cerr, exc, Result,
                   handled, fd>>

DumpAllSymbols ==
    /\ pc = "Dump"
    /\ m_Settings.SymbolName = <<"*">>
    /\ SetDumpState(DumpAllSymbolsBody(
           [DumpState EXCEPT !.steps = Append(@, "DumpAllSymbols")]))
    /\ pc' = "PrintTestFooter"
    /\ UNCHANGED <<argv, pdb, ArgumentPointer, m_Settings, m_Made, m_PDBOpen,
                   streams, cerr, exc, Result, handled, fd>>

DumpOneSymbol ==
    /\ pc = "Dump"
    /\ m_Settings.SymbolName # <<"*">>
    /\ LET Symbol == GetSymbolByName(m_Settings.SymbolName)
           D == [DumpState EXCEPT !.steps = Append(@, "DumpOneSymbol")]
       IN IF Symbol = NULL
          THEN /\ Throw(MESSAGE_SYMBOL_NOT_FOUND)
               /\ steps' = D.steps
               /\ UNCHANGED <<out, m_SymbolSorter, m_Architecture>>
          ELSE /\ SetDumpState(DumpOneSymbolBody(D, Deref(Symbol)))
               /\ pc' = "PrintTestFooter"
               /\ UNCHANGED exc
    /\ UNCHANGED <<argv, pdb, ArgumentPointer, m_Settings, m_Made, m_PDBOpen,
                   streams, cerr, Result, handled, fd>>

PrintTestFooter ==
    /\ pc = "PrintTestFooter"
    /\ steps' = Append(steps, "PrintTestFooter")
    /\ out' = IF m_Settings.TestFile # NULL
              THEN Append(out, Write(Deref(m_Settings.TestFile), "testfooter", 0, ""))
              ELSE out
    /\ pc' = "CloseOpenedFiles"
    /\ UNCHANGED <<argv, pdb, ArgumentPointer, m_Settings, m_Made, m_PDBOpen,
                   m_SymbolSorter, m_Architecture, streams, cerr, exc, Result,
                   handled, fd>>

\* Catch that reports the error and leaves Result alone
CatchKeepsResult ==
    /\ pc = "catch"
    /\ cerr' = Append(cerr, Deref(exc))
    /\ pc' = "CloseOpenedFiles"
    /\ UNCHANGED <<argv, pdb, ArgumentPointer, m_Settings, m_Made, m_PDBOpen,
                   m_SymbolSorter, m_Architecture, streams, out, exc, steps,
                   handled, fd, Result>>

\* catch (PDBDumperException& e)
Catch ==
    /\ pc = "catch"
    /\ cerr' = Append(cerr, Deref(exc))
    /\ Result' = EXIT_FAILURE
    /\ pc' = "CloseOpenedFiles"
    /\ UNCHANGED <<argv, pdb, ArgumentPointer, m_Settings, m_Made, m_PDBOpen,
                   m_SymbolSorter, m_Architecture, streams, out, exc, steps,
                   handled, fd>>

\* delete of the stream a settings pointer holds
Delete(ss, p) == [ss EXCEPT ![p].open = FALSE]

\* the streams after CloseOpenedFiles
ClosedFiles(S, ss) ==
    LET s1 == IF S.TestFilename # NULL THEN Delete(ss, Deref(S.TestFile)) ELSE ss
    IN IF S.OutputFilename # NULL THEN Delete(s1, S.OutputFile) ELSE s1

\* CloseOpenedFiles(); return Result;
CloseOpenedFiles ==
    /\ pc = "CloseOpenedFiles"
    /\ streams' = ClosedFiles(m_Settings, streams)
    /\ pc' = "returned"
    /\ UNCHANGED <<argv, pdb, ArgumentPointer, m_Settings, m_Made, m_PDBOpen,
                   m_SymbolSorter, m_Architecture, out, cerr, exc, Result,
                   steps, handled, fd>>

----------------------------------------------------------------------------
(* UserDataFieldDefinition: the field declaration printer.                  *)
(* fd.chain is the type chain of one member, outermost wrapper first; the   *)
(* visitor calls the callbacks of a wrapper after those of what it wraps.   *)

MaxDepth == 2           \* wrappers (pointer, array) around the innermost type
MaxElementCount == 12   \* largest array element count
MaxRuns == 2            \* printers run over the same chain, one after the other

Digits == <<"0", "1", "2", "3", "4", "5", "6", "7", "8", "9">>

RECURSIVE to_string(_)
\* std::to_string of a non-negative integer
to_string(n) ==
    IF n < 10 THEN <<Digits[n + 1]>>
    ELSE Append(to_string(n \div 10), Digits[(n % 10) + 1])

\* PDB::GetBasicTypeString
GetBasicTypeString(Symbol, UseStdInt) ==
    CASE Symbol.Base = "int" ->
            IF UseStdInt THEN <<"i", "n", "t", "3", "2", "_", "t">> ELSE <<"i", "n", "t">>
      [] Symbol.Base = "char" ->
            IF UseStdInt THEN <<"i", "n", "t", "8", "_", "t">> ELSE <<"c", "h", "a", "r">>

FunctionComment ==
    <<" ", "/", "*", " ", "f", "u", "n", "c", "t", "i", "o", "n", " ", "*", "/">>

FdSymbol(tag, count, size, base, sig) ==
    [Tag |-> tag, ElementCount |-> count, Size |-> size, Base |-> base, Signature |-> sig]

Wrappers ==
    {FdSymbol("Pointer", 0, 8, "", 0)}
      \cup {FdSymbol("Array", n, 4 * n, "", 0) : n \in 0..MaxElementCount}

Innermost ==
    {FdSymbol("BaseType", 0, 4, b, 0) : b \in {"int", "char"}}
      \cup {FdSymbol("Function", 0, 0, "", g) : g \in 1..3}

Chains == {w \o <<b>> : w \in SeqsUpTo(Wrappers, MaxDepth), b \in Innermost}

MemberNames == {NULL, Ptr(<<"X">>), Ptr(<<"a", "0">>)}

DefaultFdSettings == [UseStdInt |-> FALSE]

FdIdle ==
    [chain |-> <<>>, MemberName |-> NULL, Settings |-> NULL, pc |-> "idle",
     pos |-> 0, m_TypePrefix |-> <<>>, m_MemberName |-> <<>>,
     m_TypeSuffix |-> <<>>, m_Comment |-> <<>>, m_Settings |-> DefaultFdSettings,
     renders |-> <<>>, sizes |-> <<>>]

\* after a callback on chain[pos]: the visitor moves outwards
FdAdvance(f) ==
    [f EXCEPT !.pos = @ - 1, !.pc = IF f.pos = 1 THEN "render" ELSE "visit"]

VisitBaseType(f, Symbol) ==
    [f EXCEPT !.m_TypePrefix = @ \o GetBasicTypeString(Symbol, f.m_Settings.UseStdInt)]

VisitPointerTypeEnd(f, Symbol) ==
    [f EXCEPT !.m_TypePrefix = @ \o <<"*">>]

\* VisitArrayTypeEnd without the size correction
VisitArrayTypeEndKeepsSize(f, Symbol) ==
    IF f.chain[Symbol].ElementCount = 0
    THEN [f EXCEPT !.m_TypePrefix = @ \o <<"*">>]
    ELSE [f EXCEPT !.m_TypeSuffix =
               @ \o <<"[">> \o to_string(f.chain[Symbol].ElementCount) \o <<"]">>]

\* Symbol is the position in the chain: the zero-count branch writes its Size
VisitArrayTypeEnd(f, Symbol) ==
    IF f.chain[Symbol].ElementCount = 0
    THEN [f EXCEPT !.chain[Symbol].Size = 1,
                   !.m_TypePrefix = @ \o <<"*">>]
    ELSE [f EXCEPT !.m_TypeSuffix =
               @ \o <<"[">> \o to_string(f.chain[Symbol].ElementCount) \o <<"]">>]

\* VisitFunctionTypeEnd that spells the signature instead of void
VisitFunctionTypeEndSpellsType(f, Symbol) ==
    [f EXCEPT !.m_TypePrefix = @ \o <<"f", "n", Digits[Symbol.Signature + 1]>>,
              !.m_Comment = FunctionComment]

VisitFunctionTypeEnd(f, Symbol) ==
    [f EXCEPT !.m_TypePrefix = @ \o <<"v", "o", "i", "d">>,
              !.m_Comment = FunctionComment]

SetMemberName(f, MemberName) ==
    [f EXCEPT !.m_MemberName = IF MemberName # NULL THEN Deref(MemberName) ELSE <<>>]

GetPrintableDefinition(f) ==
    f.m_TypePrefix \o <<" ">> \o f.m_MemberName \o f.m_TypeSuffix \o f.m_Comment

SetSettings(f, MemberDefinitionSettings) ==
    [f EXCEPT !.m_Settings = IF MemberDefinitionSettings = NULL
                             THEN DefaultFdSettings
                             ELSE Deref(MemberDefinitionSettings)]

\* a printer is constructed for the member and given its settings
FdConstruct ==
    /\ fd.pc = "new"
    /\ Len(fd.renders) < MaxRuns
    /\ fd' = SetSettings([fd EXCEPT !.pc = "name", !.m_TypePrefix = <<>>,
                                    !.m_MemberName = <<>>, !.m_TypeSuffix = <<>>,
                                    !.m_Comment = <<>>],
                         fd.Settings)
    /\ UNCHANGED driverVars

FdSetMemberName ==
    /\ fd.pc = "name"
    /\ fd' = [SetMemberName(fd, fd.MemberName) EXCEPT !.pc = "visit",
                                                     !.pos = Len(fd.chain)]
    /\ UNCHANGED driverVars

FdVisitBaseType ==
    /\ fd.pc = "visit"
    /\ fd.chain[fd.pos].Tag = "BaseType"
    /\ fd' = FdAdvance(VisitBaseType(fd, fd.chain[fd.pos]))
    /\ UNCHANGED driverVars

FdVisitPointerTypeEnd ==
    /\ fd.pc = "visit"
    /\ fd.chain[fd.pos].Tag = "Pointer"
    /\ fd' = FdAdvance(VisitPointerTypeEnd(fd, fd.chain[fd.pos]))
    /\ UNCHANGED driverVars

FdVisitArrayTypeEnd ==
    /\ fd.pc = "visit"
    /\ fd.chain[fd.pos].Tag = "Array"
    /\ fd' = FdAdvance(VisitArrayTypeEnd(fd, fd.pos))
    /\ UNCHANGED driverVars

FdVisitFunctionTypeEnd ==
    /\ fd.pc = "visit"
    /\ fd.chain[fd.pos].Tag = "Function"
    /\ fd' = FdAdvance(VisitFunctionTypeEnd(fd, fd.chain[fd.pos]))
    /\ UNCHANGED driverVars

\* the rendered text is taken; the printer is dropped
FdGetPrintableDefinition ==
    /\ fd.pc = "render"
    /\ fd' = [fd EXCEPT !.renders = Append(@, GetPrintableDefinition(fd)),
                        !.sizes = Append(@, [i \in 1..Len(fd.chain) |-> fd.chain[i].Size]),
                        !.pc = "new"]
    /\ UNCHANGED driverVars

----------------------------------------------------------------------------
(* Specifications *)

Prog == <<"x">>
Path == <<"d">>

\* tokens that steer the pipeline
PipelineTokens ==
    { Off("j"), Off("k"), Off("n"), Off("l"), Opt("e"), <<"a">>, <<"n">> }

\* every option letter, on and off, and malformed tokens
AllTokens ==
    {Opt(c) : c \in ValueOptions \cup BoolFlags}
      \cup {Off(c) : c \in BoolFlags}
      \cup { <<"-", "p", "z">>, <<"x", "p", "-">>, <<"-", "z">>, <<"x", "p">>,
             <<"p">>, <<"-", "p", "-", "-">>, <<"f">>, <<"a">> }

FileTokens == { Opt("o"), Opt("t"), <<"f">>, <<"g">>, Opt("z") }

SymbolNames == { <<"*">>, <<"S">>, <<"T">>, <<"N">> }

CommandLines ==
    {<<Prog, n, Path>> \o o : n \in SymbolNames, o \in SeqsUpTo(PipelineTokens, MaxOptArgs)}

FlagCommandLines ==
    {<<Prog>>, <<Prog, <<"-", "h">> >>, <<Prog, <<"-", "-", "h", "e", "l", "p">> >>,
     <<Prog, <<"S">> >>}
      \cup {<<Prog, <<"S">>, Path>> \o o : o \in SeqsUpTo(AllTokens, MaxFlagArgs)}

FileCommandLines ==
    {<<Prog, n, Path>> \o o : n \in {<<"*">>, <<"N">>}, o \in SeqsUpTo(FileTokens, MaxFileArgs)}

\* the state of a PDBExtractor before Run, for a command line and a database
InitRun(lines, dbs) ==
    /\ argv \in lines
    /\ pdb \in dbs
    /\ pc = "ParseParameters"
    /\ ArgumentPointer = 0
    /\ m_Settings = DefaultSettings
    /\ m_Made = FALSE
    /\ m_PDBOpen = FALSE
    /\ m_SymbolSorter = NewSorter
    /\ m_Architecture = "None"
    /\ streams = <<>>
    /\ out = <<>>
    /\ cerr = <<>>
    /\ exc = NULL
    /\ Result = ERROR_SUCCESS
    /\ steps = <<>>
    /\ handled = {}

Init ==
    /\ \/ InitRun(CommandLines, {[exists |-> e, syms |-> g] : e \in BOOLEAN, g \in Graphs})
       \/ InitRun(FlagCommandLines, {[exists |-> TRUE, syms |-> GraphX86]})
       \/ InitRun(FileCommandLines, {[exists |-> e, syms |-> GraphX86] : e \in BOOLEAN})
    /\ fd = FdIdle

Next ==
    \/ ParseParameters
    \/ ParseArgument
    \/ ParseParametersEnd
    \/ OpenPDBFile
    \/ PrintTestHeader
    \/ DumpAllSymbols
    \/ DumpOneSymbol
    \/ PrintTestFooter
    \/ Catch
    \/ CloseOpenedFiles

Spec == Init /\ [][Next]_vars

\* the printer over every chain, member name and settings pointer
InitFD ==
    /\ InitRun({<<Prog>>}, {[exists |-> FALSE, syms |-> <<>>]})
    /\ fd \in {[FdIdle EXCEPT !.chain = c, !.MemberName = n, !.Settings = t, !.pc = "new"] :
                 c \in Chains, n \in MemberNames,
                 t \in {NULL, Ptr([UseStdInt |-> TRUE]), Ptr([UseStdInt |-> FALSE])}}

NextFD ==
    \/ FdConstruct
    \/ FdSetMemberName
    \/ FdVisitBaseType
    \/ FdVisitPointerTypeEnd
    \/ FdVisitArrayTypeEnd
    \/ FdVisitFunctionTypeEnd
    \/ FdGetPrintableDefinition

SpecFD == InitFD /\ [][NextFD]_vars

----------------------------------------------------------------------------
(* Properties of PDBExtractor::Run *)

Kinds(ks) == {i \in 1..Len(out) : out[i].kind \in ks}

StepsBeforeFailure ==
    CASE exc = Ptr(MESSAGE_INVALID_PARAMETERS) -> <<"ParseParameters">>
      [] exc = Ptr(MESSAGE_FILE_NOT_FOUND) -> <<"ParseParameters", "OpenPDBFile">>
      [] exc = Ptr(MESSAGE_SYMBOL_NOT_FOUND) ->
            <<"ParseParameters", "OpenPDBFile", "PrintTestHeader", "DumpOneSymbol">>

\* C1: when Run returns, Result is the success code exactly when no fatal
\* error was raised; after a fatal error Result is non-zero, std::cerr holds
\* exactly one line (the error's message), the step log ends at the failing
\* step, and no header, declaration, definition or test footer was written.
C1_RunResult ==
    pc = "returned" =>
        IF exc = NULL
        THEN /\ Result = ERROR_SUCCESS
             /\ cerr = <<>>
             /\ steps[Len(steps)] = "PrintTestFooter"
        ELSE /\ Result # ERROR_SUCCESS
             /\ cerr = <<Deref(exc)>>
             /\ steps = StepsBeforeFailure
             /\ Kinds({"header", "decl", "def", "testfooter"}) = {}

\* a run that failed in DumpOneSymbol, after the test header was written
C1_Witness ==
    /\ pc = "returned"
    /\ exc = Ptr(MESSAGE_SYMBOL_NOT_FOUND)
    /\ Result = EXIT_FAILURE
    /\ Kinds({"testheader"}) # {}

OneSymbolWithReferencedTypes ==
    /\ m_Settings.SymbolName # <<"*">>
    /\ m_Settings.PrintReferencedTypes
    /\ m_Settings.MemberStructExpansion # "InlineAll"

\* C2: in single-symbol mode with print-referenced-types on and a policy
\* other than InlineAll, the sorted set handed to the definitions pass is
\* exactly what the sorter yields for the requested symbol from an empty
\* sorted set.
C2_SortedSetIsClosure ==
    (pc = "PrintTestFooter" /\ OneSymbolWithReferencedTypes) =>
        m_SymbolSorter.sorted =
            SorterVisit(pdb.syms, NewSorter,
                        Deref(GetSymbolByName(m_Settings.SymbolName))).sorted

NamedUdt(id) == pdb.syms[id].Tag = "UDT" /\ ~IsUnnamedSymbol(pdb.syms[id])

\* C3: after either dump, the header comes before every declaration and
\* every declaration before every definition; and when print-declarations is
\* on, every named UDT of the sorted set has a forward declaration in the
\* output before the first definition.
C3_DeclarationsBeforeDefinitions ==
    pc = "PrintTestFooter" =>
        /\ \A h \in Kinds({"header"}), d \in Kinds({"decl", "def"}) : h < d
        /\ \A d \in Kinds({"decl"}), f \in Kinds({"def"}) : d < f
        /\ m_Settings.PrintDeclarations =>
              \A k \in 1..Len(m_SymbolSorter.sorted) :
                  NamedUdt(m_SymbolSorter.sorted[k]) =>
                      \E d \in Kinds({"decl"}) :
                          /\ out[d].sym = m_SymbolSorter.sorted[k]
                          /\ \A f \in Kinds({"def"}) : d < f

WellFormedSwitch(t) ==
    \/ (Len(t) = 2 /\ t[1] = "-")
    \/ (Len(t) = 3 /\ t[1] = "-" /\ t[3] = "-")

\* C4: an argument vector with the symbol but no path never gets past
\* ParseParameters without InvalidParameters; and a vector that was parsed
\* into settings has only option tokens of the form -X or -X- with a known
\* letter X, none of them a value-taking option in the last position.
C4_MalformedRejected ==
    /\ (argc = 2 /\ Arg(1) \notin HelpArguments /\ pc # "ParseParameters")
          => exc = Ptr(MESSAGE_INVALID_PARAMETERS)
    /\ m_Made =>
          \A k \in handled :
              /\ WellFormedSwitch(Arg(k))
              /\ Arg(k)[2] \in ValueOptions \cup BoolFlags
              /\ Arg(k)[2] \in ValueOptions => k < argc - 1

\* the option tokens the parser examined that select flag c
HandledFor(c) == {k \in handled : Len(Arg(k)) \in {2, 3} /\ Arg(k)[2] = c}

\* flag c examined once by the parser, written with the trailing '-'
PassedOnceOff(c) == \E k \in handled : HandledFor(c) = {k} /\ Arg(k) = Off(c)

\* C5 as stated: after a successful parse, a flag passed once with a
\* trailing '-' has its setting at the negation of its documented default.
C5_OffNegatesDefault ==
    m_Made =>
        \A c \in BoolFlags :
            PassedOnceOff(c) => FlagField(m_Settings, c) = ~DocumentedDefault(c)

\* C5 amended: after a successful parse, a flag that the parser examined
\* once as an option, written with a trailing '-', has its setting off; that
\* is the negation of the documented default for the flags that default on.
C5_OffSwitchesOff ==
    m_Made =>
        \A c \in BoolFlags :
            PassedOnceOff(c) =>
                /\ FlagField(m_Settings, c) = FALSE
                /\ DocumentedDefault(c) => FlagField(m_Settings, c) = ~DocumentedDefault(c)

\* -b- and -p- each parsed once: both settings are off
C5_Witness ==
    /\ m_Made
    /\ PassedOnceOff("b")
    /\ PassedOnceOff("p")
    /\ ~m_Settings.AllowBitFieldsInUnion
    /\ ~m_Settings.CreatePaddingMembers

\* C6: no definition is written while print-definitions is off, and no
\* forward declaration while print-declarations is off.
C6_TogglesSuppress ==
    /\ ~m_Settings.PrintDefinitions => Kinds({"def"}) = {}
    /\ ~m_Settings.PrintDeclarations => Kinds({"decl"}) = {}

Anonymous(id) ==
    /\ pdb.syms[id].Tag \in {"UDT", "Enum"}
    /\ IsUnnamedSymbol(pdb.syms[id])

\* C7: under InlineUnnamed or InlineAll no forward declaration is written
\* for an anonymous UDT or enum, and the visitor is never run on one as an
\* element of the sorted set.
C7_InlinedNeverStandalone ==
    m_Settings.MemberStructExpansion \in {"InlineUnnamed", "InlineAll"} =>
        \A i \in 1..Len(out) :
            (out[i].kind = "decl" \/ (out[i].kind = "def" /\ out[i].info = "sorted"))
                => ~Anonymous(out[i].sym)

\* C10: when Run has returned, every stream opened by ParseParameters is
\* closed.
C10_AllStreamsClosed ==
    pc = "returned" => \A i \in 1..Len(streams) : ~streams[i].open

----------------------------------------------------------------------------
(* Properties of UserDataFieldDefinition *)

DigitValue(ch) == CHOOSE v \in 0..9 : Digits[v + 1] = ch

RECURSIVE DecimalValue(_)
DecimalValue(d) ==
    IF Len(d) = 0 THEN 0
    ELSE 10 * DecimalValue(SubSeq(d, 1, Len(d) - 1)) + DigitValue(d[Len(d)])

Contains(text, part) ==
    \E i \in 1..(Len(text) - Len(part) + 1) :
        SubSeq(text, i, i + Len(part) - 1) = part

\* the step of VisitArrayTypeEnd on chain[pos]
ArrayEndEffect ==
    LET i == fd.pos
        n == fd.chain[i].ElementCount
        added == SubSeq(fd'.m_TypeSuffix, Len(fd.m_TypeSuffix) + 1, Len(fd'.m_TypeSuffix))
    IN IF n = 0
       THEN /\ fd'.m_TypePrefix = fd.m_TypePrefix \o <<"*">>
            /\ fd'.m_TypeSuffix = fd.m_TypeSuffix
            /\ fd'.chain[i].Size = 1
       ELSE /\ fd'.m_TypePrefix = fd.m_TypePrefix
            /\ fd'.chain[i].Size = fd.chain[i].Size
            /\ SubSeq(fd'.m_TypeSuffix, 1, Len(fd.m_TypeSuffix)) = fd.m_TypeSuffix
            /\ Len(added) >= 3
            /\ added[1] = "[" /\ added[Len(added)] = "]"
            /\ added[2] # "0"
            /\ DecimalValue(SubSeq(added, 2, Len(added) - 1)) = n

\* C8: VisitArrayTypeEnd on a zero-count array appends '*' to the prefix,
\* nothing to the suffix, and sets the symbol's size to 1; on a count n > 0
\* it appends '[', the decimal spelling of n, ']' to the suffix and leaves
\* prefix and size alone.  No rendered text contains "[0]", and every later
\* printer run over the same chain renders the same text and leaves the same
\* sizes as the first.
C8_ArrayEnd ==
    /\ [][(fd.pc = "visit" /\ fd.chain[fd.pos].Tag = "Array" /\ fd'.pos # fd.pos)
             => ArrayEndEffect]_vars
    /\ [](\A k \in 1..Len(fd.renders) :
             /\ ~Contains(fd.renders[k], <<"[", "0", "]">>)
             /\ fd.renders[k] = fd.renders[1]
             /\ fd.sizes[k] = fd.sizes[1])

\* two runs over a chain holding a zero-count array and an array of ten
C8_Witness ==
    /\ Len(fd.renders) = 2
    /\ \E i \in 1..Len(fd.chain) :
          /\ fd.chain[i].Tag = "Array"
          /\ fd.chain[i].ElementCount = 0
          /\ fd.chain[i].Size = 1
    /\ \E i \in 1..Len(fd.chain) :
          /\ fd.chain[i].Tag = "Array"
          /\ fd.chain[i].ElementCount = 10

IsPointerToFunction(c) ==
    Len(c) = 2 /\ c[1].Tag = "Pointer" /\ c[2].Tag = "Function"

\* C9: the text rendered for a pointer-to-function member is "void*", a
\* space, the member name and the function comment, whatever the signature
\* of the function.
C9_FunctionPointerText ==
    IsPointerToFunction(fd.chain) =>
        \A k \in 1..Len(fd.renders) :
            fd.renders[k] =
                <<"v", "o", "i", "d", "*", " ">>
                    \o (IF fd.MemberName = NULL THEN <<>> ELSE Deref(fd.MemberName))
                    \o FunctionComment

\* a named pointer-to-function member of the second signature was rendered
C9_Witness ==
    /\ IsPointerToFunction(fd.chain)
    /\ fd.chain[2].Signature = 2
    /\ fd.MemberName = Ptr(<<"X">>)
    /\ Len(fd.renders) >= 1

====
